---- MODULE Spec2Model ----
(***************************************************************************)
(* A model of the sink manifest (src/src/lib.rs) and of the GitHub plugin  *)
(* (src/src/github/mod.rs).                                                *)
(*                                                                         *)
(* Conventions.  An Option<T> is a sequence of length at most one: None    *)
(* is <<>> and Some(x) is <<x>>.  A Rust String that is parsed or built    *)
(* character by character (a dependency key, a pathspec) is a sequence of  *)
(* one-character strings; group and plugin names, which are only compared, *)
(* are atoms.  A HashMap is a function whose DOMAIN is its key set.        *)
(***************************************************************************)
EXTENDS Integers, Sequences, FiniteSets, TLC

VARIABLES
    sink_toml,   \* the loaded SinkTOML object: typed fields and `formatted`
    pc,          \* position of the running command
    cur,         \* arguments, locals and result of the github::_add of this command
    last,        \* the add_dependency call of this command and what it returned
    calls,       \* number of commands run on the loaded manifest so far
    files,       \* the file system: what is stored under each path
    root,        \* the path the outermost from_file was called with
    stack,       \* the active calls of SinkTOML::from_file, innermost last
    load_result, \* what the outermost from_file returned
    log,         \* the warn!/info!/error! lines written so far
    input,       \* the string handed to try_from or to GitHubDependency::new
    parsed,      \* what try_from returned
    printed,     \* the parsed pathspec converted back with to_string
    created      \* the other arguments of GitHubDependency::new and its result

manifestVars == <<sink_toml, pc, cur, last, calls>>
loadVars == <<files, root, stack, load_result, log>>
parseVars == <<input, parsed, printed, created>>
vars == <<manifestVars, loadVars, parseVars>>

None == <<>>
Some(x) == <<x>>
Option(S) == {None} \cup {Some(x) : x \in S}

EmptyMap == <<>>

(***************************************************************************)
(* Bounds of the model.                                                    *)
(***************************************************************************)
MaxCalls == 2
MaxDepth == 4
MaxIncludes == 2
MaxLen == 6
Groups == {"dev", "prod"}
PluginNames == {"GitHub", "Python"}
Keys == {<<"f">>, <<"o", "/", "r", ":", "p">>}

(***************************************************************************)
(* lib.rs: Dependency<T>, DependencyContainer<T>, DependencyType<T>,       *)
(* PluginOptions<T>.                                                       *)
(***************************************************************************)
Version(s) == [kind |-> "Version", version |-> s]
Full(d) == [kind |-> "Full", dep |-> d]

DependencyContainer(deps) == [includes |-> None, dependencies |-> deps]

Singular(container) == [type |-> "Singular", container |-> container]
Grouped(groups) == [type |-> "Grouped", groups |-> groups]
Invalid == [type |-> "Invalid"]

PluginOptions(default_group, dependencies) ==
    [default_group |-> default_group, dependencies |-> dependencies]

(***************************************************************************)
(* The formatted document (toml_edit::Document) is the ordered list of its *)
(* leaves: the table a leaf lives in, its key and its value.               *)
(***************************************************************************)
Node(table, key, value) == [table |-> table, key |-> key, value |-> value]

IsPrefix(p, t) == Len(p) <= Len(t) /\ SubSeq(t, 1, Len(p)) = p

Positions(doc, table, key) ==
    {i \in 1..Len(doc) : doc[i].table = table /\ doc[i].key = key}

\* The position after which a new key of `table` is inserted: the end of the
\* deepest table on the way to `table` that already exists in the document.
InsertAfter(doc, table) ==
    LET depths == {d \in 0..Len(table) :
                     \E i \in 1..Len(doc) : IsPrefix(SubSeq(table, 1, d), doc[i].table)}
        d == IF depths = {} THEN 0
             ELSE CHOOSE x \in depths : \A y \in depths : y <= x
        inside == {i \in 1..Len(doc) : IsPrefix(SubSeq(table, 1, d), doc[i].table)}
    IN  IF inside = {} THEN Len(doc)
        ELSE CHOOSE i \in inside : \A j \in inside : j <= i

\* `doc[a][b]..[key] = value` (IndexMut of toml_edit): an existing key keeps
\* its place and gets the new value, a new key is created in its table.
SetItem(doc, table, key, value) ==
    IF Positions(doc, table, key) # {}
    THEN [i \in 1..Len(doc) |->
            IF doc[i].table = table /\ doc[i].key = key
            THEN Node(table, key, value) ELSE doc[i]]
    ELSE LET at == InsertAfter(doc, table)
         IN  SubSeq(doc, 1, at) \o <<Node(table, key, value)>>
                \o SubSeq(doc, at + 1, Len(doc))

\* Variant: the group is left out of the path that is written.
ExtendFormattedUngrouped(formatted, plugin_name, group, dependency_key, value) ==
    SetItem(formatted, <<plugin_name, "dependencies">>, dependency_key, value)

_extend_formatted(formatted, plugin_name, group, dependency_key, value) ==
    IF group # None
    THEN SetItem(formatted, <<plugin_name, group[1], "dependencies">>,
                 dependency_key, value)
    ELSE SetItem(formatted, <<plugin_name, "dependencies">>, dependency_key, value)

(***************************************************************************)
(* SinkTOML::add_dependency.  The result is the returned value and the     *)
(* object as the call leaves it.  The errors are named after the message   *)
(* they carry:                                                             *)
(*   DuplicateKey         "Dependency '..' already exists!"                *)
(*   MissingGroup         "Cannot add ungrouped dependency to grouped      *)
(*                         dependencies if default-group is not set!"      *)
(*   GroupedIntoSingular  "Adding grouped dependencies to singular         *)
(*                         dependencies are not supported yet!"            *)
(*   CorruptContainer     "Current .. configuration contains invalid       *)
(*                         entries. .."                                    *)
(* and Panic is the unwrap() of a manifest without a GitHub table.         *)
(***************************************************************************)
Returned(result, object) == [result |-> result, sink_toml |-> object]

\* Variant: the global default group wins over the one of the plugin.
DependencyGroupGlobalFirst(object, group) ==
    IF group # None THEN group
    ELSE IF object.default_group # None THEN object.default_group
    ELSE object.github[1].sink_options.default_group

\* group.or(sink_options.default_group.or(self.default_group))
dependency_group(object, group) ==
    IF group # None THEN group
    ELSE IF object.github[1].sink_options.default_group # None
         THEN object.github[1].sink_options.default_group
    ELSE object.default_group

new_container(dependency_key, dependency) ==
    DependencyContainer(dependency_key :> dependency)

WithDependencies(object, dependencies) ==
    [object EXCEPT !.github =
        Some([sink_options |->
                [object.github[1].sink_options EXCEPT !.dependencies = dependencies]])]

\* Variant: an existing key is replaced instead of refused.
GroupedArmOverwrite(grouped_containers, final_group, dependency_key, dependency) ==
    IF final_group = None THEN [result |-> "MissingGroup"]
    ELSE IF final_group[1] \in DOMAIN grouped_containers
    THEN [result |-> "Ok",
          groups |-> [grouped_containers EXCEPT ![final_group[1]].dependencies =
                        (dependency_key :> dependency) @@ @]]
    ELSE [result |-> "Ok",
          groups |-> (final_group[1] :> new_container(dependency_key, dependency))
                        @@ grouped_containers]

\* The arm DependencyType::Grouped(grouped_containers).
GroupedArm(grouped_containers, final_group, dependency_key, dependency) ==
    IF final_group = None THEN [result |-> "MissingGroup"]
    ELSE IF final_group[1] \in DOMAIN grouped_containers
    THEN IF dependency_key \in DOMAIN grouped_containers[final_group[1]].dependencies
         THEN [result |-> "DuplicateKey"]
         ELSE [result |-> "Ok",
               groups |-> [grouped_containers EXCEPT ![final_group[1]].dependencies =
                             (dependency_key :> dependency) @@ @]]
    ELSE [result |-> "Ok",
          groups |-> (final_group[1] :> new_container(dependency_key, dependency))
                        @@ grouped_containers]

\* Variant: the group is looked at before the key.
SingularArmGroupFirst(container, final_group, dependency_key, dependency) ==
    IF final_group # None THEN [result |-> "GroupedIntoSingular"]
    ELSE IF dependency_key \in DOMAIN container.dependencies
    THEN [result |-> "DuplicateKey"]
    ELSE [result |-> "Ok",
          container |-> [container EXCEPT !.dependencies =
                            (dependency_key :> dependency) @@ @]]

\* The arm DependencyType::Singular(container).
SingularArm(container, final_group, dependency_key, dependency) ==
    IF dependency_key \in DOMAIN container.dependencies
    THEN [result |-> "DuplicateKey"]
    ELSE IF final_group # None THEN [result |-> "GroupedIntoSingular"]
    ELSE [result |-> "Ok",
          container |-> [container EXCEPT !.dependencies =
                            (dependency_key :> dependency) @@ @]]

\* Variant: the first dependency always creates a flat container.
FirstDependencyFlat(final_group, dependency_key, dependency) ==
    Singular(new_container(dependency_key, dependency))

\* The arm None: "This is the first dependency".
FirstDependency(final_group, dependency_key, dependency) ==
    IF final_group # None
    THEN Grouped(final_group[1] :> new_container(dependency_key, dependency))
    ELSE Singular(new_container(dependency_key, dependency))

\* Variant: the typed model is changed first and not restored when the call
\* fails (commit-then-fail instead of validate-then-commit).
AddDependencyCommitFirst(object, plugin_name, group, dependency, dependency_key, formatted_value) ==
    IF object.github = None THEN Returned("Panic", object)
    ELSE
    LET final_group == dependency_group(object, group)
        existing == object.github[1].sink_options.dependencies
        Commit(dependencies, formatted_group) ==
            Returned("Ok",
                [WithDependencies(object, Some(dependencies))
                    EXCEPT !.formatted =
                        _extend_formatted(object.formatted, plugin_name,
                                          formatted_group, dependency_key,
                                          formatted_value)])
    IN  IF existing = None
        THEN Commit(FirstDependency(final_group, dependency_key, dependency),
                    final_group)
        ELSE IF existing[1].type = "Grouped"
        THEN LET r == GroupedArm(existing[1].groups, final_group,
                                 dependency_key, dependency)
                 w == GroupedArmOverwrite(existing[1].groups, final_group,
                                          dependency_key, dependency)
             IN  IF r.result = "Ok" THEN Commit(Grouped(r.groups), final_group)
                 ELSE IF w.result = "Ok"
                 THEN Returned(r.result, WithDependencies(object, Some(Grouped(w.groups))))
                 ELSE Returned(r.result, object)
        ELSE IF existing[1].type = "Singular"
        THEN LET r == SingularArm(existing[1].container, final_group,
                                  dependency_key, dependency)
             IN  IF r.result = "Ok" THEN Commit(Singular(r.container), None)
                 ELSE Returned(r.result,
                        WithDependencies(object,
                          Some(Singular([existing[1].container EXCEPT !.dependencies =
                                (dependency_key :> dependency) @@ @]))))
        ELSE Returned("CorruptContainer", object)

add_dependency(object, plugin_name, group, dependency, dependency_key, formatted_value) ==
    IF object.github = None THEN Returned("Panic", object)
    ELSE
    LET final_group == dependency_group(object, group)
        existing == object.github[1].sink_options.dependencies
        Commit(dependencies, formatted_group) ==
            Returned("Ok",
                [WithDependencies(object, Some(dependencies))
                    EXCEPT !.formatted =
                        _extend_formatted(object.formatted, plugin_name,
                                          formatted_group, dependency_key,
                                          formatted_value)])
    IN  IF existing = None
        THEN Commit(FirstDependency(final_group, dependency_key, dependency),
                    final_group)
        ELSE IF existing[1].type = "Grouped"
        THEN LET r == GroupedArm(existing[1].groups, final_group,
                                 dependency_key, dependency)
             IN  IF r.result = "Ok" THEN Commit(Grouped(r.groups), final_group)
                 ELSE Returned(r.result, object)
        ELSE IF existing[1].type = "Singular"
        THEN LET r == SingularArm(existing[1].container, final_group,
                                  dependency_key, dependency)
             IN  IF r.result = "Ok" THEN Commit(Singular(r.container), None)
                 ELSE Returned(r.result, object)
        ELSE Returned("CorruptContainer", object)

(***************************************************************************)
(* github/mod.rs: GitHubVersion, GitHubPathspec, GitHubDependency.         *)
(***************************************************************************)
Latest == [tag |-> "Latest"]
Prerelease == [tag |-> "Prerelease"]
Tag(s) == [tag |-> "Tag", v |-> s]

\* impl Display for GitHubVersion
VersionToString(version) ==
    IF version.tag = "Latest" THEN "latest"
    ELSE IF version.tag = "Prerelease" THEN "prerelease"
    ELSE version.v

GitHubPathspec(owner, repository, pattern) ==
    [owner |-> owner, repository |-> repository, pattern |-> pattern]

\* #[derive(Default)]: three empty strings, what #[serde(skip)] leaves behind
DefaultPathspec == GitHubPathspec(<<>>, <<>>, <<>>)

is_valid(pathspec) ==
    pathspec.owner # <<>> /\ pathspec.repository # <<>> /\ pathspec.pattern # <<>>

\* impl From<GitHubPathspec> for String
PathspecToString(value) ==
    value.owner \o <<"/">> \o value.repository \o <<":">> \o value.pattern

GitHubDependency(pathspec, destination, version, gitignore) ==
    [pathspec |-> pathspec, destination |-> destination,
     version |-> version, gitignore |-> gitignore]

\* toml_edit::value(..) and the toml_edit::table() built by _add
Value(v) == [kind |-> "value", v |-> v]
Table(dependency) ==
    [kind |-> "table", version |-> VersionToString(dependency.version),
     destination |-> dependency.destination, gitignore |-> dependency.gitignore]

\* The executor is a stub: it logs and returns Ok(()).
download(dependency) == "Ok"

(***************************************************************************)
(* Inputs.                                                                 *)
(***************************************************************************)
Entries == {Version("latest"), Version("v1")}

Pathspecs == {GitHubPathspec(<<"o">>, <<"r">>, <<"p">>), DefaultPathspec}
GitHubDependencies ==
    {GitHubDependency(p, ".", v, TRUE) : p \in Pathspecs, v \in {Latest, Tag("v1")}}

\* The text value an entry has in the manifest file.
FormattedEntry(entry) ==
    IF entry.kind = "Version" THEN Value(entry.version) ELSE Table(entry.dep)

(***************************************************************************)
(* The manifests a run starts from, with the document the same text parses *)
(* to: the keys of a table in the order of KeyOrder, the groups in the     *)
(* order of GroupOrder.                                                    *)
(***************************************************************************)
KeyOrder == <<<<"f">>, <<"o", "/", "r", ":", "p">>>>
GroupOrder == <<"dev", "prod">>

RECURSIVE ContainerNodes(_, _, _)
ContainerNodes(table, container, i) ==
    IF i > Len(KeyOrder) THEN <<>>
    ELSE (IF KeyOrder[i] \in DOMAIN container.dependencies
          THEN <<Node(table, KeyOrder[i],
                      FormattedEntry(container.dependencies[KeyOrder[i]]))>>
          ELSE <<>>) \o ContainerNodes(table, container, i + 1)

RECURSIVE GroupNodes(_, _, _)
GroupNodes(plugin_name, groups, i) ==
    IF i > Len(GroupOrder) THEN <<>>
    ELSE (IF GroupOrder[i] \in DOMAIN groups
          THEN ContainerNodes(<<plugin_name, GroupOrder[i], "dependencies">>,
                              groups[GroupOrder[i]], 1)
          ELSE <<>>) \o GroupNodes(plugin_name, groups, i + 1)

PluginNodes(plugin_name, options) ==
    IF options = None THEN <<>>
    ELSE LET so == options[1].sink_options
         IN  (IF so.default_group = None THEN <<>>
              ELSE <<Node(<<plugin_name>>, <<"default-group">>,
                          Value(so.default_group[1]))>>)
             \o (IF so.dependencies = None THEN <<>>
                 ELSE IF so.dependencies[1].type = "Singular"
                 THEN ContainerNodes(<<plugin_name, "dependencies">>,
                                     so.dependencies[1].container, 1)
                 ELSE IF so.dependencies[1].type = "Grouped"
                 THEN GroupNodes(plugin_name, so.dependencies[1].groups, 1)
                 ELSE <<Node(<<plugin_name>>, <<"dependencies">>, Value("?"))>>)

Document(default_group, github, python, rust) ==
    (IF default_group = None THEN <<>>
     ELSE <<Node(<<>>, <<"default-group">>, Value(default_group[1]))>>)
    \o PluginNodes("Python", python) \o PluginNodes("Rust", rust)
    \o PluginNodes("GitHub", github)

\* The object toml::from_str and the parse of the Document build from one text.
SinkTOML(path, includes, default_group, github, python, rust) ==
    [includes |-> includes, default_group |-> default_group, python |-> python,
     rust |-> rust, github |-> github, path |-> path,
     formatted |-> Document(default_group, github, python, rust)]

InitialDependencies ==
    {None,
     Some(Singular(DependencyContainer(EmptyMap))),
     Some(Singular(DependencyContainer(<<"f">> :> Version("latest")))),
     Some(Grouped(EmptyMap)),
     Some(Grouped("dev" :> DependencyContainer(<<"f">> :> Version("latest")))),
     Some(Invalid)}

\* The Python table of every starting manifest: one flat dependency.
PythonOptions ==
    Some([sink_options |->
            PluginOptions(None,
                Some(Singular(DependencyContainer(<<"f">> :> Version("latest")))))])

InitialManifests ==
    {SinkTOML("sink.toml", <<>>, dg, gh, PythonOptions, None) :
        dg \in Option({"dev"}),
        gh \in {None} \cup
               {Some([sink_options |-> PluginOptions(pg, deps)]) :
                    pg \in Option({"prod"}), deps \in InitialDependencies}}

\* The values of the variables a specification does not use.
LoadIdle ==
    files = <<>> /\ root = None /\ stack = <<>> /\ load_result = None /\ log = <<>>
ParseIdle == input = <<>> /\ parsed = None /\ printed = None /\ created = None
ManifestIdle ==
    /\ sink_toml = None /\ pc = "idle" /\ cur = None /\ last = None /\ calls = 0

NoCall == [op |-> "none"]
NoAdd == [running |-> FALSE]

Init ==
    /\ sink_toml \in InitialManifests
    /\ pc = "idle"
    /\ cur = NoAdd
    /\ last = NoCall
    /\ calls = 0
    /\ LoadIdle
    /\ ParseIdle

(***************************************************************************)
(* A caller of the library calls add_dependency on the loaded manifest.    *)
(* A panic ends the process.                                               *)
(***************************************************************************)
Call(plugin_name, group, dependency, dependency_key, formatted_value, r) ==
    [op |-> "add_dependency", plugin_name |-> plugin_name, group |-> group,
     dependency |-> dependency, dependency_key |-> dependency_key,
     formatted_value |-> formatted_value, result |-> r.result]

AddDependency ==
    /\ pc = "idle"
    /\ calls < MaxCalls
    /\ calls' = calls + 1
    /\ \E plugin_name \in PluginNames, group \in Option(Groups),
          dependency \in Entries, dependency_key \in Keys :
          LET formatted_value == FormattedEntry(dependency)
              r == add_dependency(sink_toml, plugin_name, group, dependency,
                                  dependency_key, formatted_value)
          IN  /\ sink_toml' = r.sink_toml
              /\ last' = Call(plugin_name, group, dependency, dependency_key,
                              formatted_value, r)
              /\ pc' = IF r.result = "Panic" THEN "aborted" ELSE "idle"
    /\ cur' = NoAdd
    /\ UNCHANGED <<loadVars, parseVars>>

(***************************************************************************)
(* github::_add, one action per statement that can return.  The manifest   *)
(* type _add is written against (a `dependencies` map keyed by pathspec    *)
(* and an add_dependency of three arguments) is not the SinkTOML of        *)
(* lib.rs; the two calls are read as the GitHub container of lib.rs and    *)
(* its add_dependency with the pathspec string as the key and no group.    *)
(***************************************************************************)
Running(dependency, short_form, downloaded) ==
    [running |-> TRUE, dependency |-> dependency, short_form |-> short_form,
     downloaded |-> downloaded]
Finished(c, result) ==
    [running |-> FALSE, dependency |-> c.dependency, short_form |-> c.short_form,
     downloaded |-> c.downloaded, result |-> result]

\* All keys of the GitHub container, whatever its shape.
GitHubKeys(object) ==
    IF object.github = None \/ object.github[1].sink_options.dependencies = None
    THEN {}
    ELSE LET d == object.github[1].sink_options.dependencies[1]
         IN  IF d.type = "Singular" THEN DOMAIN d.container.dependencies
             ELSE IF d.type = "Grouped"
             THEN UNION {DOMAIN d.groups[g].dependencies : g \in DOMAIN d.groups}
             ELSE {}

\* sink_toml.dependencies.contains_key(&dependency.pathspec)
contains_key(object, pathspec) == PathspecToString(pathspec) \in GitHubKeys(object)

\* if !dependency.pathspec.is_valid() { return Err(..) }
Add_is_valid ==
    /\ pc = "idle"
    /\ calls < MaxCalls
    /\ calls' = calls + 1
    /\ \E dependency \in GitHubDependencies, short_form \in BOOLEAN :
          LET c == Running(dependency, short_form, FALSE)
          IN  IF ~is_valid(dependency.pathspec)
              THEN cur' = Finished(c, "InvalidDependency") /\ pc' = "idle"
              ELSE cur' = c /\ pc' = "contains_key"
    /\ last' = NoCall
    /\ UNCHANGED <<sink_toml, loadVars, parseVars>>

\* Variant: the existence check is skipped.
Add_contains_key_skipped ==
    /\ pc = "contains_key"
    /\ pc' = "download"
    /\ UNCHANGED <<sink_toml, last, calls, cur, loadVars, parseVars>>

\* if sink_toml.dependencies.contains_key(..) { return Err(..) }
Add_contains_key ==
    /\ pc = "contains_key"
    /\ IF contains_key(sink_toml, cur.dependency.pathspec)
       THEN cur' = Finished(cur, "AlreadyExists") /\ pc' = "idle"
       ELSE cur' = cur /\ pc' = "download"
    /\ UNCHANGED <<sink_toml, last, calls, loadVars, parseVars>>

\* Variant: the dependency is committed without running the executor.
Add_download_skipped ==
    /\ pc = "download"
    /\ pc' = "add_dependency"
    /\ UNCHANGED <<sink_toml, last, calls, cur, loadVars, parseVars>>

\* download(&dependency)?;
Add_download ==
    /\ pc = "download"
    /\ IF download(cur.dependency) = "Ok"
       THEN cur' = [cur EXCEPT !.downloaded = TRUE] /\ pc' = "add_dependency"
       ELSE cur' = Finished(cur, "DownloadFailed") /\ pc' = "idle"
    /\ UNCHANGED <<sink_toml, last, calls, loadVars, parseVars>>

\* match sink_toml.add_dependency(dependency, dependency_type, formatted_value)
Add_add_dependency ==
    /\ pc = "add_dependency"
    /\ LET dependency == cur.dependency
           dependency_type ==
               IF cur.short_form THEN Version(VersionToString(dependency.version))
               ELSE Full(dependency)
           formatted_value ==
               IF cur.short_form THEN Value(VersionToString(dependency.version))
               ELSE Table(dependency)
           dependency_key == PathspecToString(dependency.pathspec)
           r == add_dependency(sink_toml, "GitHub", None, dependency_type,
                               dependency_key, formatted_value)
       IN  /\ sink_toml' = r.sink_toml
           /\ last' = Call("GitHub", None, dependency_type, dependency_key,
                           formatted_value, r)
           /\ cur' = Finished(cur, r.result)
           /\ pc' = IF r.result = "Panic" THEN "aborted" ELSE "idle"
    /\ UNCHANGED <<calls, loadVars, parseVars>>

Next ==
    \/ AddDependency
    \/ Add_is_valid
    \/ Add_contains_key
    \/ Add_download
    \/ Add_add_dependency

Spec == Init /\ [][Next]_vars

(***************************************************************************)
(* SinkTOML::from_file and _from_file.  A file is absent, or holds text    *)
(* that toml::from_str refuses, or holds a manifest; the text of a         *)
(* manifest is given by what it declares.                                  *)
(***************************************************************************)
Files == {"a.toml", "b.toml"}
\* A path under which there is never a file.
Missing == "c.toml"
Paths == Files \cup {Missing}

Absent == [kind |-> "absent"]
Garbage == [kind |-> "garbage"]
Text(includes, github, python, rust) ==
    [kind |-> "text", includes |-> includes, github |-> github,
     python |-> python, rust |-> rust]

Ok(x) == [ok |-> TRUE, value |-> x]
Err(e) == [ok |-> FALSE, error |-> e]
\* The recursion ran out of stack: the process is gone, nothing is returned.
Overflow == [overflow |-> TRUE]

\* fs::read_to_string(path)
read_to_string(fs, path) ==
    IF fs[path].kind = "absent" THEN Err("io") ELSE Ok(fs[path])

\* toml::from_str(&string_contents), then sink_toml.path and .formatted
from_str(string_contents, path) ==
    IF string_contents.kind = "garbage" THEN Err("toml")
    ELSE Ok(SinkTOML(path, string_contents.includes, None, string_contents.github,
                     string_contents.python, string_contents.rust))

IsInvalid(options) ==
    /\ options # None
    /\ options[1].sink_options.dependencies = Some(Invalid)

_validate(object) ==
    IF IsInvalid(object.github) THEN Err("invalid") ELSE Ok(object)

Frame(path, stage, contents, object, i) ==
    [path |-> path, stage |-> stage, contents |-> contents, sink_toml |-> object,
     i |-> i]

Top == stack[Len(stack)]
Pop(stk) == SubSeq(stk, 1, Len(stk) - 1)
WithTop(stk, frame) == [stk EXCEPT ![Len(stk)] = frame]

Warn(path) == [level |-> "warn", path |-> path]
Info(path) == [level |-> "info", path |-> path]
NotImplemented(path) == [level |-> "error", path |-> path]

\* Variant: a failed include is returned to the caller (`?`) instead of skipped.
IncludedOrFail(frame, included, lg) ==
    IF ~included.ok
    THEN [frame |-> frame, log |-> lg, returns |-> Some(included)]
    ELSE [frame |-> [frame EXCEPT !.i = @ + 1],
          log |-> lg \o <<Info(frame.sink_toml[1].includes[frame.i]),
                          NotImplemented(frame.sink_toml[1].includes[frame.i])>>,
          returns |-> None]

\* The body of the includes loop once from_file(include_path) is back; it
\* never returns from _from_file.
Included(frame, included, lg) ==
    IF ~included.ok
    THEN [frame |-> [frame EXCEPT !.i = @ + 1],
          log |-> Append(lg, Warn(frame.sink_toml[1].includes[frame.i])),
          returns |-> None]
    ELSE [frame |-> [frame EXCEPT !.i = @ + 1],
          log |-> lg \o <<Info(frame.sink_toml[1].includes[frame.i]),
                          NotImplemented(frame.sink_toml[1].includes[frame.i])>>,
          returns |-> None]

\* The innermost call returns r: stk is the stack without it.
RECURSIVE Unwind(_, _, _)
Unwind(stk, r, lg) ==
    IF stk = <<>> THEN [stack |-> <<>>, load_result |-> Some(r), log |-> lg]
    ELSE LET a == Included(stk[Len(stk)], r, lg)
         IN  IF a.returns = None
             THEN [stack |-> WithTop(stk, a.frame), load_result |-> None, log |-> a.log]
             ELSE Unwind(Pop(stk), a.returns[1], a.log)

Return(r) ==
    LET u == Unwind(Pop(stack), r, log)
    IN  stack' = u.stack /\ load_result' = u.load_result /\ log' = u.log

IncludeLists ==
    UNION {[1..n -> Paths] : n \in 0..MaxIncludes}

ValidOptions ==
    Some([sink_options |->
            PluginOptions(None,
                Some(Singular(DependencyContainer(<<"f">> :> Version("latest")))))])
InvalidOptions == Some([sink_options |-> PluginOptions(None, Some(Invalid))])

\* #[serde(rename_all = "lowercase")] enum GitHubVersion, Tag untagged
GitHubVersionFrom(s) ==
    IF s = "latest" THEN Latest
    ELSE IF s = "prerelease" THEN Prerelease
    ELSE Tag(s)

\* Deserialize of Dependency<GitHubDependency>: a string is Version, a table
\* is Full with the skipped pathspec left at its Default.
DeserializeDependency(entry) ==
    IF entry.kind = "value" THEN Version(entry.v)
    ELSE Full(GitHubDependency(DefaultPathspec, entry.destination,
                               GitHubVersionFrom(entry.version), entry.gitignore))

\* A GitHub table with the entry _add writes in its long form for o/r:p,
\* as from_str reads it back.
FullOptions ==
    Some([sink_options |->
            PluginOptions(None,
                Some(Singular(DependencyContainer(
                    <<"o", "/", "r", ":", "p">> :>
                        DeserializeDependency(
                            Table(GitHubDependency(
                                GitHubPathspec(<<"o">>, <<"r">>, <<"p">>),
                                ".", Latest, TRUE)))))))])

\* What the three provider tables of a manifest file hold.
ProviderTables ==
    {<<ValidOptions, None, None>>, <<InvalidOptions, None, None>>,
     <<ValidOptions, InvalidOptions, None>>, <<None, None, InvalidOptions>>,
     <<FullOptions, None, None>>}

FileContents ==
    {Absent, Garbage}
        \cup {Text(inc, t[1], t[2], t[3]) : inc \in IncludeLists, t \in ProviderTables}

InitLoad ==
    /\ files \in {[p \in Paths |-> IF p = Missing THEN Absent ELSE f[p]] :
                    f \in [Files -> FileContents]}
    /\ root = None
    /\ stack = <<>>
    /\ load_result = None
    /\ log = <<>>
    /\ ManifestIdle
    /\ ParseIdle

\* The program calls SinkTOML::from_file(path).
FromFile ==
    /\ root = None
    /\ \E path \in Paths :
          /\ root' = Some(path)
          /\ stack' = <<Frame(path, "read", None, None, 0)>>
    /\ UNCHANGED <<files, load_result, log, manifestVars, parseVars>>

\* let string_contents = fs::read_to_string(path)?;
Load_read ==
    /\ stack # <<>> /\ load_result = None
    /\ Top.stage = "read"
    /\ LET r == read_to_string(files, Top.path)
       IN  IF r.ok
           THEN /\ stack' = WithTop(stack, [Top EXCEPT !.stage = "from_str",
                                                       !.contents = Some(r.value)])
                /\ UNCHANGED <<load_result, log>>
           ELSE Return(r)
    /\ UNCHANGED <<files, root, manifestVars, parseVars>>

\* let mut sink_toml: SinkTOML = toml::from_str(&string_contents)?;
Load_from_str ==
    /\ stack # <<>> /\ load_result = None
    /\ Top.stage = "from_str"
    /\ LET r == from_str(Top.contents[1], Top.path)
       IN  IF r.ok
           THEN /\ stack' = WithTop(stack,
                                [Top EXCEPT !.stage = "parse_document",
                                            !.sink_toml = Some([r.value EXCEPT
                                                                 !.formatted = <<>>])])
                /\ UNCHANGED <<load_result, log>>
           ELSE Return(r)
    /\ UNCHANGED <<files, root, manifestVars, parseVars>>

\* sink_toml.formatted = string_contents.parse::<Document>()?;
Load_parse_document ==
    /\ stack # <<>> /\ load_result = None
    /\ Top.stage = "parse_document"
    /\ stack' = WithTop(stack,
                    [Top EXCEPT !.stage = "includes", !.i = 1,
                                !.sink_toml = Some(from_str(Top.contents[1],
                                                            Top.path).value)])
    /\ UNCHANGED <<files, root, load_result, log, manifestVars, parseVars>>

\* let included = SinkTOML::from_file(include_path);
Load_include ==
    /\ stack # <<>> /\ load_result = None
    /\ Top.stage = "includes"
    /\ Top.i <= Len(Top.sink_toml[1].includes)
    /\ IF Len(stack) < MaxDepth
       THEN /\ stack' = Append(stack,
                            Frame(Top.sink_toml[1].includes[Top.i], "read", None, None, 0))
            /\ UNCHANGED load_result
       ELSE /\ load_result' = Some(Overflow)
            /\ UNCHANGED stack
    /\ UNCHANGED <<files, root, log, manifestVars, parseVars>>

\* Variant: a manifest that fails validation returns before its includes
\* are gone through.
Load_validate_early ==
    /\ stack # <<>> /\ load_result = None
    /\ Top.stage = "includes"
    /\ \/ Top.i > Len(Top.sink_toml[1].includes)
       \/ ~_validate(Top.sink_toml[1]).ok
    /\ Return(_validate(Top.sink_toml[1]))
    /\ UNCHANGED <<files, root, manifestVars, parseVars>>

\* sink_toml._validate()?; Ok(sink_toml)
Load_validate ==
    /\ stack # <<>> /\ load_result = None
    /\ Top.stage = "includes"
    /\ Top.i > Len(Top.sink_toml[1].includes)
    /\ Return(_validate(Top.sink_toml[1]))
    /\ UNCHANGED <<files, root, manifestVars, parseVars>>

NextLoad ==
    \/ FromFile
    \/ Load_read
    \/ Load_from_str
    \/ Load_parse_document
    \/ Load_include
    \/ Load_validate

SpecLoad == InitLoad /\ [][NextLoad]_vars

\* The program is one thread that runs each statement to its end: a step
\* that can be taken is taken.
SpecLoadFair == SpecLoad /\ WF_vars(NextLoad)

(***************************************************************************)
(* impl TryFrom<String> for GitHubPathspec: the regular expression         *)
(*     ^(?<owner>.+)/(?<repo>.+):(?<pattern>.+)$                           *)
(* `.` is any character but the line feed, `.+` is greedy, and of several  *)
(* ways to match the first group takes as much as it can, then the second. *)
(***************************************************************************)
Alphabet == {"a", "/", ":", "\n"}
Strings == UNION {[1..n -> Alphabet] : n \in 0..MaxLen}

\* The places of the '/' and of the ':' in each way the expression matches.
Matches(str) ==
    IF \E n \in 1..Len(str) : str[n] = "\n" THEN {}
    ELSE {m \in (1..Len(str)) \X (1..Len(str)) :
            /\ str[m[1]] = "/" /\ str[m[2]] = ":"
            /\ 1 < m[1] /\ m[1] + 1 < m[2] /\ m[2] < Len(str)}

\* Variant: the ':' is kept at the front of the pattern.
CapturesKeepColon(str, m) ==
    GitHubPathspec(SubSeq(str, 1, m[1] - 1), SubSeq(str, m[1] + 1, m[2] - 1),
                   SubSeq(str, m[2], Len(str)))

Captures(str, m) ==
    GitHubPathspec(SubSeq(str, 1, m[1] - 1), SubSeq(str, m[1] + 1, m[2] - 1),
                   SubSeq(str, m[2] + 1, Len(str)))

try_from(str) ==
    IF Matches(str) = {} THEN Err("Invalid dependency path specification")
    ELSE Ok(Captures(str,
            CHOOSE m \in Matches(str) :
                \A o \in Matches(str) :
                    m[1] > o[1] \/ (m[1] = o[1] /\ m[2] >= o[2])))

\* Variant: the default owner is put in front whenever there is one.
NewDefaultOwnerFirst(dependency, destination, version, gitignore, default_owner) ==
    LET first == IF default_owner = None THEN try_from(dependency)
                 ELSE try_from(default_owner[1] \o <<"/">> \o dependency)
    IN  IF ~first.ok THEN first
        ELSE Ok(GitHubDependency(first.value,
                    IF destination = None THEN "." ELSE destination[1],
                    IF version = None THEN Latest ELSE version[1], gitignore))

\* GitHubDependency::new
new(dependency, destination, version, gitignore, default_owner) ==
    LET first == try_from(dependency)
        pathspec ==
            IF first.ok THEN first
            ELSE IF default_owner = None THEN first
            ELSE try_from(default_owner[1] \o <<"/">> \o dependency)
    IN  IF ~pathspec.ok THEN pathspec
        ELSE Ok(GitHubDependency(pathspec.value,
                    IF destination = None THEN "." ELSE destination[1],
                    IF version = None THEN Latest ELSE version[1], gitignore))

DefaultOwners == {None, Some(<<>>), Some(<<"a">>), Some(<<"\n">>)}
Destinations == {None, Some("destination")}
Versions == {None, Some(Tag("v1.0.0"))}

InitPathspec ==
    /\ input \in Strings
    /\ parsed = None
    /\ printed = None
    /\ created = None
    /\ ManifestIdle
    /\ LoadIdle

\* GitHubPathspec::try_from(value)
TryFrom ==
    /\ parsed = None /\ created = None
    /\ parsed' = Some(try_from(input))
    /\ UNCHANGED <<input, printed, created, manifestVars, loadVars>>

\* path_spec.to_string()
to_string ==
    /\ parsed # None /\ parsed[1].ok /\ printed = None
    /\ printed' = Some(PathspecToString(parsed[1].value))
    /\ UNCHANGED <<input, parsed, created, manifestVars, loadVars>>

\* GitHubDependency::new(dependency, destination, version, gitignore, &default_owner)
New ==
    /\ parsed = None /\ created = None
    /\ \E destination \in Destinations, version \in Versions, gitignore \in BOOLEAN,
          default_owner \in DefaultOwners :
          created' = Some([destination |-> destination, version |-> version,
                           gitignore |-> gitignore, default_owner |-> default_owner,
                           result |-> new(input, destination, version, gitignore,
                                          default_owner)])
    /\ UNCHANGED <<input, parsed, printed, manifestVars, loadVars>>

NextPathspec ==
    \/ TryFrom
    \/ to_string
    \/ New

SpecPathspec == InitPathspec /\ [][NextPathspec]_vars

(***************************************************************************)
(* Vocabulary of the properties.                                           *)
(***************************************************************************)
ContainerPaths(table, container) ==
    {[table |-> table, key |-> k] : k \in DOMAIN container.dependencies}

\* The dependency key paths of one provider of the typed model.
PluginPaths(plugin_name, options) ==
    IF options = None \/ options[1].sink_options.dependencies = None THEN {}
    ELSE LET d == options[1].sink_options.dependencies[1]
         IN  IF d.type = "Singular"
             THEN ContainerPaths(<<plugin_name, "dependencies">>, d.container)
             ELSE IF d.type = "Grouped"
             THEN UNION {ContainerPaths(<<plugin_name, g, "dependencies">>, d.groups[g]) :
                            g \in DOMAIN d.groups}
             ELSE {}

TypedPaths(object) ==
    PluginPaths("GitHub", object.github) \cup PluginPaths("Python", object.python)
        \cup PluginPaths("Rust", object.rust)

\* The dependency key paths of the formatted document.
MirrorPaths(doc) ==
    {[table |-> doc[i].table, key |-> doc[i].key] :
        i \in {j \in 1..Len(doc) :
                 Len(doc[j].table) >= 2
                 /\ doc[j].table[Len(doc[j].table)] = "dependencies"}}

MirrorValue(doc, table, key) ==
    LET i == CHOOSE j \in Positions(doc, table, key) : TRUE IN doc[i].value

GitHubContainer(object) ==
    IF object.github = None THEN None
    ELSE object.github[1].sink_options.dependencies

HasShape(object, type) ==
    GitHubContainer(object) # None /\ GitHubContainer(object)[1].type = type

\* The map a call with resolved group rg inserts into, when it exists.
TargetMap(object, rg) ==
    IF HasShape(object, "Singular") /\ rg = None
    THEN Some(GitHubContainer(object)[1].container.dependencies)
    ELSE IF HasShape(object, "Grouped") /\ rg # None
            /\ rg[1] \in DOMAIN GitHubContainer(object)[1].groups
    THEN Some(GitHubContainer(object)[1].groups[rg[1]].dependencies)
    ELSE None

\* The table of the provider the entry of a call with resolved group rg is in.
TargetTable(plugin_name, rg) ==
    IF rg = None THEN <<plugin_name, "dependencies">>
    ELSE <<plugin_name, rg[1], "dependencies">>

FirstPresent(a, b, c) == IF a # None THEN a ELSE IF b # None THEN b ELSE c

Errors == {"DuplicateKey", "MissingGroup", "GroupedIntoSingular", "CorruptContainer"}

\* This step is a call of add_dependency, by a caller or by _add.
IsAddCall ==
    /\ last' # NoCall
    /\ \/ pc = "add_dependency"
       \/ pc = "idle" /\ cur' = NoAdd

(***************************************************************************)
(* C1: the typed model and the formatted document hold the same set of     *)
(* dependency key paths in every state, whatever provider name the calls   *)
(* of add_dependency were given.                                           *)
(***************************************************************************)
C1_SamePaths == TypedPaths(sink_toml) = MirrorPaths(sink_toml.formatted)

(***************************************************************************)
(* C2: a call of add_dependency that returns an error leaves the typed     *)
(* model and the formatted document exactly as they were.                  *)
(***************************************************************************)
C2_ErrorChangesNothing ==
    [][IsAddCall /\ last'.result \in Errors => sink_toml' = sink_toml]_vars

C2_Witness ==
    /\ last # NoCall
    /\ last.result = "DuplicateKey"
    /\ HasShape(sink_toml, "Grouped")

(***************************************************************************)
(* C3 as stated: a call on a Singular container with a resolved group      *)
(* fails with GroupedIntoSingular for every key and changes nothing.       *)
(***************************************************************************)
C3_AlwaysGroupedIntoSingular ==
    [][IsAddCall /\ HasShape(sink_toml, "Singular")
         /\ dependency_group(sink_toml, last'.group) # None
       => last'.result = "GroupedIntoSingular" /\ sink_toml' = sink_toml]_vars

(***************************************************************************)
(* C3 amended: such a call always fails and changes nothing; the error is  *)
(* GroupedIntoSingular when the key is not in the flat map and the         *)
(* duplicate-key error when it is.                                         *)
(***************************************************************************)
C3_GroupedIntoSingularUnlessDuplicate ==
    [][IsAddCall /\ HasShape(sink_toml, "Singular")
         /\ dependency_group(sink_toml, last'.group) # None
       => /\ sink_toml' = sink_toml
          /\ last'.result =
                IF last'.dependency_key
                     \in DOMAIN GitHubContainer(sink_toml)[1].container.dependencies
                THEN "DuplicateKey" ELSE "GroupedIntoSingular"]_vars

C3_Witness ==
    /\ last # NoCall
    /\ last.result = "GroupedIntoSingular"
    /\ last.group = None
    /\ HasShape(sink_toml, "Singular")

(***************************************************************************)
(* C4: a successful call puts the entry, in the typed model and in the     *)
(* document, under the first present of the requested group, the default   *)
(* group of the plugin and the default group of the manifest, and outside  *)
(* any group only when all three are absent.                               *)
(***************************************************************************)
C4_GroupPrecedence ==
    [][IsAddCall /\ last'.result = "Ok"
       => LET rg == FirstPresent(last'.group,
                                 sink_toml.github[1].sink_options.default_group,
                                 sink_toml.default_group)
              table == TargetTable(last'.plugin_name, rg)
          IN  /\ (rg = None) = (/\ last'.group = None
                                /\ sink_toml.github[1].sink_options.default_group = None
                                /\ sink_toml.default_group = None)
              /\ TargetMap(sink_toml', rg) # None
              /\ last'.dependency_key \in DOMAIN TargetMap(sink_toml', rg)[1]
              /\ TargetMap(sink_toml, rg) # None
                    => last'.dependency_key \notin DOMAIN TargetMap(sink_toml, rg)[1]
              /\ Positions(sink_toml'.formatted, table, last'.dependency_key) # {}
              /\ MirrorValue(sink_toml'.formatted, table, last'.dependency_key)
                    = last'.formatted_value
              /\ MirrorPaths(sink_toml'.formatted) \ MirrorPaths(sink_toml.formatted)
                    \subseteq {[table |-> table, key |-> last'.dependency_key]}]_vars

C4_Witness ==
    /\ last # NoCall
    /\ last.result = "Ok"
    /\ last.group = None
    /\ sink_toml.default_group = Some("dev")
    /\ sink_toml.github[1].sink_options.default_group = Some("prod")
    /\ TargetMap(sink_toml, Some("prod")) # None
    /\ last.dependency_key \in DOMAIN TargetMap(sink_toml, Some("prod"))[1]

(***************************************************************************)
(* C5: a key that is in a target map stays there with its entry; a call    *)
(* that resolves to an existing target map fails with the duplicate-key    *)
(* error and changes nothing when the key is in the map, and succeeds and  *)
(* stores the entry when it is not.                                        *)
(***************************************************************************)
C5_DuplicateRefused ==
    [][/\ \A rg \in Option(Groups) :
            TargetMap(sink_toml, rg) # None
            => /\ TargetMap(sink_toml', rg) # None
               /\ \A k \in DOMAIN TargetMap(sink_toml, rg)[1] :
                    /\ k \in DOMAIN TargetMap(sink_toml', rg)[1]
                    /\ TargetMap(sink_toml', rg)[1][k] = TargetMap(sink_toml, rg)[1][k]
       /\ IsAddCall /\ sink_toml.github # None
          => LET rg == dependency_group(sink_toml, last'.group)
                 k == last'.dependency_key
             IN  TargetMap(sink_toml, rg) # None
                 => IF k \in DOMAIN TargetMap(sink_toml, rg)[1]
                    THEN last'.result = "DuplicateKey" /\ sink_toml' = sink_toml
                    ELSE /\ last'.result = "Ok"
                         /\ k \in DOMAIN TargetMap(sink_toml', rg)[1]
                         /\ TargetMap(sink_toml', rg)[1][k] = last'.dependency]_vars

\* The duplicate is a key no starting manifest holds: an earlier call put it.
C5_Witness ==
    /\ last # NoCall
    /\ last.result = "DuplicateKey"
    /\ last.dependency_key = <<"o", "/", "r", ":", "p">>
    /\ HasShape(sink_toml, "Singular")

(***************************************************************************)
(* C6: a call on a manifest whose provider has no container yet, its table *)
(* present without dependencies or absent altogether, succeeds and creates *)
(* a Grouped container of the one resolved group with the one key, or a    *)
(* Singular container with the one key when no group is resolved.          *)
(***************************************************************************)
C6_FirstDependencyCreates ==
    [][IsAddCall /\ GitHubContainer(sink_toml) = None
       => /\ last'.result = "Ok"
          /\ LET rg == FirstPresent(last'.group,
                          IF sink_toml.github = None THEN None
                          ELSE sink_toml.github[1].sink_options.default_group,
                          sink_toml.default_group)
                 one == DependencyContainer(last'.dependency_key :> last'.dependency)
             IN  GitHubContainer(sink_toml') =
                    IF rg = None THEN Some(Singular(one))
                    ELSE Some(Grouped(rg[1] :> one))]_vars

(***************************************************************************)
(* C9: in _add the executor runs after both checks have passed and before  *)
(* add_dependency; add_dependency is called only after the executor        *)
(* returned Ok; the checks and the executor leave the manifest alone, and  *)
(* an _add that ends at a check or at the executor has not called          *)
(* add_dependency.                                                         *)
(***************************************************************************)
C9_DownloadBeforeCommit ==
    [][/\ pc' \in {"download", "add_dependency"}
          => /\ is_valid(cur'.dependency.pathspec)
             /\ ~contains_key(sink_toml', cur'.dependency.pathspec)
       /\ pc' = "add_dependency" => cur'.downloaded
       /\ pc' = "download" => ~cur'.downloaded
       /\ cur' # NoAdd /\ last' # NoCall
          => pc = "add_dependency" /\ cur.downloaded
       /\ cur' # NoAdd /\ pc # "add_dependency"
          => sink_toml' = sink_toml /\ last' = NoCall
       /\ cur' # NoAdd /\ ~cur'.running
            /\ cur'.result \in {"InvalidDependency", "AlreadyExists", "DownloadFailed"}
          => sink_toml' = sink_toml /\ last' = NoCall]_vars

C9_Witness ==
    /\ cur # NoAdd
    /\ ~cur.running
    /\ cur.downloaded
    /\ cur.result = "Ok"
    /\ last # NoCall
    /\ contains_key(sink_toml, cur.dependency.pathspec)

(***************************************************************************)
(* Vocabulary of the properties of from_file.                              *)
(***************************************************************************)
HasReturned == load_result # None /\ load_result[1] # Overflow

\* What from_file returns for a file when its includes are left aside.
LoadAlone(fs, path) ==
    IF fs[path].kind = "absent" THEN Err("io")
    ELSE IF fs[path].kind = "garbage" THEN Err("toml")
    ELSE IF IsInvalid(fs[path].github) THEN Err("invalid")
    ELSE Ok(SinkTOML(path, fs[path].includes, None, fs[path].github,
                     fs[path].python, fs[path].rust))

(***************************************************************************)
(* C7: a manifest that from_file returns successfully has no Invalid       *)
(* container under GitHub, Python or Rust: validation fails whenever one   *)
(* of the three is Invalid.                                                *)
(***************************************************************************)
C7_LoadedHasNoInvalid ==
    HasReturned /\ load_result[1].ok
    => /\ ~IsInvalid(load_result[1].value.github)
       /\ ~IsInvalid(load_result[1].value.python)
       /\ ~IsInvalid(load_result[1].value.rust)

(***************************************************************************)
(* C8: what from_file returns for the root is what it returns for the root *)
(* file with its includes left aside, whatever the includes are and        *)
(* however loading them ends; when an included load comes back, failed or  *)
(* not, the including call logs it and goes on with its next include.      *)
(***************************************************************************)
C8_IncludesDoNotMatter ==
    [][/\ HasReturned' => load_result'[1] = LoadAlone(files, root'[1])
       /\ Len(stack') < Len(stack) /\ stack' # <<>>
          => LET parent == stack[Len(stack) - 1]
                 include_path == parent.sink_toml[1].includes[parent.i]
             IN  /\ load_result' = None
                 /\ stack' = WithTop(Pop(stack), [parent EXCEPT !.i = @ + 1])
                 /\ include_path = Top.path
                 /\ log' = IF LoadAlone(files, include_path).ok
                           THEN log \o <<Info(include_path), NotImplemented(include_path)>>
                           ELSE Append(log, Warn(include_path))]_vars

\* The root was loaded although its first include failed, and its second
\* include was still loaded.
C8_Witness ==
    /\ HasReturned
    /\ load_result[1].ok
    /\ Len(load_result[1].value.includes) = 2
    /\ Len(log) = 3
    /\ log[1].level = "warn"
    /\ log[2].level = "info"

(***************************************************************************)
(* C10: try_from accepts exactly the strings owner/repository:pattern with *)
(* one ':', one '/' before it and three non-empty parts (stated here for   *)
(* the inputs without a line feed).                                        *)
(***************************************************************************)
Count(str, c) == Cardinality({n \in 1..Len(str) : str[n] = c})

WellFormed(str) ==
    /\ Count(str, ":") = 1
    /\ LET colon == CHOOSE n \in 1..Len(str) : str[n] = ":"
           slashes == {n \in 1..(colon - 1) : str[n] = "/"}
       IN  /\ Cardinality(slashes) = 1
           /\ LET slash == CHOOSE n \in slashes : TRUE
              IN  1 < slash /\ slash + 1 < colon /\ colon < Len(str)

C10_AcceptsExactlyWellFormed ==
    parsed # None /\ Count(input, "\n") = 0
    => (parsed[1].ok <=> WellFormed(input))

(***************************************************************************)
(* C11 as stated: for non-empty owner, repository and pattern without '/'  *)
(* and ':', try_from of owner/repository:pattern succeeds with exactly     *)
(* these three fields, and to_string of the result is the input again.     *)
(***************************************************************************)
\* The input is owner/repository:pattern, the three parts non-empty and
\* free of '/' and ':'.
PlainForm(str) ==
    /\ Count(str, "/") = 1 /\ Count(str, ":") = 1
    /\ LET slash == CHOOSE n \in 1..Len(str) : str[n] = "/"
           colon == CHOOSE n \in 1..Len(str) : str[n] = ":"
       IN  1 < slash /\ slash + 1 < colon /\ colon < Len(str)

PlainParts(str) ==
    LET slash == CHOOSE n \in 1..Len(str) : str[n] = "/"
        colon == CHOOSE n \in 1..Len(str) : str[n] = ":"
    IN  [owner |-> SubSeq(str, 1, slash - 1),
         repository |-> SubSeq(str, slash + 1, colon - 1),
         pattern |-> SubSeq(str, colon + 1, Len(str))]

RoundTrips ==
    /\ parsed # None => parsed[1].ok /\ parsed[1].value = PlainParts(input)
    /\ printed # None => printed[1] = input

C11_RoundTrip == PlainForm(input) => RoundTrips

(***************************************************************************)
(* C11 amended: the same for parts that contain no line feed either.       *)
(***************************************************************************)
C11_RoundTripWithoutLineFeed ==
    PlainForm(input) /\ Count(input, "\n") = 0 => RoundTrips

C11_Witness ==
    /\ PlainForm(input)
    /\ Len(input) = 6
    /\ printed = Some(input)

(***************************************************************************)
(* C12 as stated: new keeps the owner of an owner/repository:pattern       *)
(* input whether or not a default owner is set; for a repository:pattern   *)
(* input it takes default_owner when one is set and fails when none is;    *)
(* it fails exactly when neither the input nor default_owner/input parses; *)
(* and a record it returns has "." and Latest for the omitted values.      *)
(***************************************************************************)
\* The input is repository:pattern, the two parts non-empty and free of
\* '/' and ':'.
RepositoryForm(str) ==
    /\ Count(str, "/") = 0 /\ Count(str, ":") = 1
    /\ LET colon == CHOOSE n \in 1..Len(str) : str[n] = ":"
       IN  1 < colon /\ colon < Len(str)

RepositoryParts(owner, str) ==
    LET colon == CHOOSE n \in 1..Len(str) : str[n] = ":"
    IN  [owner |-> owner, repository |-> SubSeq(str, 1, colon - 1),
         pattern |-> SubSeq(str, colon + 1, Len(str))]

OwnInputOwner(c) ==
    PlainForm(input) => c.result.ok /\ c.result.value.pathspec = PlainParts(input)

DefaultOwnerFillsIn(c) ==
    RepositoryForm(input) =>
        IF c.default_owner = None THEN ~c.result.ok
        ELSE /\ c.result.ok
             /\ c.result.value.pathspec = RepositoryParts(c.default_owner[1], input)

FailsIffNothingParses(c) ==
    c.result.ok <=>
        \/ try_from(input).ok
        \/ /\ c.default_owner # None
           /\ try_from(c.default_owner[1] \o <<"/">> \o input).ok

OmittedSubstituted(c) ==
    c.result.ok =>
        /\ c.result.value.destination =
               (IF c.destination = None THEN "." ELSE c.destination[1])
        /\ c.result.value.version =
               (IF c.version = None THEN Latest ELSE c.version[1])
        /\ c.result.value.gitignore = c.gitignore

C12_DefaultOwnerOnlyWhenLacking ==
    created # None =>
        /\ OwnInputOwner(created[1])
        /\ DefaultOwnerFillsIn(created[1])
        /\ FailsIffNothingParses(created[1])
        /\ OmittedSubstituted(created[1])

(***************************************************************************)
(* C12 amended: the same for inputs without a line feed and a default      *)
(* owner that, when set, is not empty and holds no line feed.              *)
(***************************************************************************)
UsableOwner(owner) ==
    owner = None \/ (owner[1] # <<>> /\ Count(owner[1], "\n") = 0)

C12_DefaultOwnerOnlyWhenLackingNoLineFeed ==
    created # None =>
        /\ FailsIffNothingParses(created[1])
        /\ OmittedSubstituted(created[1])
        /\ Count(input, "\n") = 0 /\ UsableOwner(created[1].default_owner) =>
              OwnInputOwner(created[1]) /\ DefaultOwnerFillsIn(created[1])

C12_Witness ==
    /\ created # None
    /\ RepositoryForm(input)
    /\ created[1].default_owner = Some(<<"a">>)
    /\ created[1].destination = None /\ created[1].version = None
    /\ created[1].result.ok
    /\ created[1].result.value.pathspec.owner = <<"a">>

(***************************************************************************)
(* C13: a call of add_dependency that returns Ok keeps every node of the   *)
(* formatted document, with its value and in the same order, next to the   *)
(* one it adds, and keeps every entry of the typed model; the text of the  *)
(* manifest is that of the formatted document.                             *)
(***************************************************************************)
Without(doc, k) == SubSeq(doc, 1, k - 1) \o SubSeq(doc, k + 1, Len(doc))

\* Every node of `before` is in `after`, same value, same order; at most one
\* node is new.
MirrorKept(before, after) ==
    after = before \/ \E k \in 1..Len(after) : Without(after, k) = before

EntryAt(options, path) ==
    LET d == options[1].sink_options.dependencies[1]
    IN  IF Len(path.table) = 2 THEN d.container.dependencies[path.key]
        ELSE d.groups[path.table[2]].dependencies[path.key]

TypedKept(before, after) ==
    /\ after.python = before.python
    /\ after.rust = before.rust
    /\ after.default_group = before.default_group
    /\ after.includes = before.includes
    /\ \A path \in PluginPaths("GitHub", before.github) :
          /\ path \in PluginPaths("GitHub", after.github)
          /\ EntryAt(after.github, path) = EntryAt(before.github, path)

\* impl ToString for SinkTOML
SinkTOMLToString(object) == object.formatted

C13_SuccessKeepsTheRest ==
    [][IsAddCall /\ last'.result = "Ok"
       => /\ MirrorKept(sink_toml.formatted, sink_toml'.formatted)
          /\ TypedKept(sink_toml, sink_toml')
          /\ SinkTOMLToString(sink_toml') = sink_toml'.formatted]_vars

(***************************************************************************)
(* C14: every Full record of the GitHub table of a manifest that from_file *)
(* returns has a pathspec with non-empty owner, repository and pattern.    *)
(***************************************************************************)
\* The Full records of the GitHub table, whatever its shape.
GitHubRecords(object) ==
    IF object.github = None \/ object.github[1].sink_options.dependencies = None
    THEN {}
    ELSE LET d == object.github[1].sink_options.dependencies[1]
             maps == IF d.type = "Singular" THEN {d.container.dependencies}
                     ELSE IF d.type = "Grouped"
                     THEN {d.groups[g].dependencies : g \in DOMAIN d.groups}
                     ELSE {}
         IN  UNION {{m[k].dep : k \in {j \in DOMAIN m : m[j].kind = "Full"}} :
                       m \in maps}

C14_RecordsHaveFullPathspec ==
    HasReturned /\ load_result[1].ok
    => \A dependency \in GitHubRecords(load_result[1].value) :
          is_valid(dependency.pathspec)

(***************************************************************************)
(* C15: in every step the GitHub container, once there, keeps its shape:   *)
(* Singular stays Singular, Grouped stays Grouped and loses no group,      *)
(* Invalid stays Invalid and every add_dependency on it fails; the shape   *)
(* is one of the three; and the first successful add_dependency creates a  *)
(* Grouped container when a group is resolved and a Singular one when not. *)
(***************************************************************************)
Shape(object) == GitHubContainer(object)[1].type

ShapeKept(before, after) ==
    GitHubContainer(before) # None
    => /\ GitHubContainer(after) # None
       /\ Shape(after) = Shape(before)
       /\ Shape(after) \in {"Singular", "Grouped", "Invalid"}
       /\ Shape(before) = "Grouped"
          => DOMAIN GitHubContainer(before)[1].groups
                \subseteq DOMAIN GitHubContainer(after)[1].groups

C15_ShapeIsKept ==
    [][/\ ShapeKept(sink_toml, sink_toml')
       /\ IsAddCall /\ HasShape(sink_toml, "Invalid")
          => last'.result \in Errors /\ sink_toml' = sink_toml
       /\ IsAddCall /\ last'.result = "Ok" /\ sink_toml.github # None
             /\ GitHubContainer(sink_toml) = None
          => Shape(sink_toml') =
                (IF dependency_group(sink_toml, last'.group) # None
                 THEN "Grouped" ELSE "Singular")]_vars

\* After two calls the container is Grouped and holds one dependency in
\* each of two groups, the last call having added one of them.
C15_Witness ==
    /\ calls = 2
    /\ last # NoCall /\ last.result = "Ok"
    /\ HasShape(sink_toml, "Grouped")
    /\ DOMAIN GitHubContainer(sink_toml)[1].groups = {"dev", "prod"}
    /\ \A g \in {"dev", "prod"} :
          Cardinality(DOMAIN GitHubContainer(sink_toml)[1].groups[g].dependencies) = 1

(***************************************************************************)
(* C16 as stated: a call of from_file validates its manifest before it     *)
(* loads an include, so the load of an include starts only from a manifest *)
(* that passed validation.                                                 *)
(***************************************************************************)
C16_ValidateBeforeIncludes ==
    [][stack # <<>> /\ Len(stack') > Len(stack)
       => _validate(Top.sink_toml[1]).ok]_vars

(***************************************************************************)
(* C16 amended: a call reads the text, parses the typed model, parses the  *)
(* formatted document, then loads its includes one after the other, and    *)
(* validates only when all of them have been gone through; a call that     *)
(* fails validation has attempted every one of its includes.               *)
(***************************************************************************)
StageOrder ==
    {<<"read", "from_str">>, <<"from_str", "parse_document">>,
     <<"parse_document", "includes">>}

C16_IncludesBeforeValidate ==
    [][stack # <<>>
       => /\ Len(stack') = Len(stack) /\ stack' # stack
             => <<Top.stage, stack'[Len(stack')].stage>> \in StageOrder
          /\ Len(stack') > Len(stack)
             => Top.stage = "includes" /\ stack'[Len(stack')].stage = "read"
          /\ Len(stack') < Len(stack) /\ Top.stage = "includes"
             => Top.i = Len(Top.sink_toml[1].includes) + 1]_vars

\* The root failed validation after both of its includes were gone through.
C16_Witness ==
    /\ HasReturned
    /\ load_result[1] = Err("invalid")
    /\ Len(files[root[1]].includes) = 2
    /\ Len(log) >= 2

(***************************************************************************)
(* C17: every call of from_file comes back: once the program has called it *)
(* for the root, a result for the root is returned, also when a manifest   *)
(* includes itself or two manifests include each other.                    *)
(***************************************************************************)
C17_LoadReturns == (root # None) ~> HasReturned

====
